---- MODULE Spec2Model ----
(***************************************************************************)
(* Model of the Foreman -> Ansible inventory generator.                    *)
(*                                                                         *)
(*   main.py / inventory_generator.py : generate_ansible_hosts             *)
(*   modules/frmn_confparser.py       : read_settings, parse_args          *)
(*   modules/frmn_envparser.py        : AnsibleInventory                   *)
(*                                                                         *)
(* A run is one process: either one of the two scripts, or a caller that   *)
(* imports modules.frmn_envparser and uses the class AnsibleInventory      *)
(* directly.  The network, the Foreman server and the file system are the  *)
(* environment: what they answer is chosen nondeterministically.           *)
(***************************************************************************)
EXTENDS Integers, Sequences, FiniteSets, TLC

(* ------------------------------ bounds --------------------------------- *)

\* Longest `results` array the Foreman server answers with.
MaxRecords == 3

(* --------------------------- the environment --------------------------- *)

\* settings read from foreman.ini (read_settings)
settings ==
    [base_url |-> "https://foreman/api/environments/",
     username |-> "api",
     password |-> "secret",
     hfile    |-> "ansible_hosts_"]

\* str(Path.home()) and os.path.sep
PathHome == "/home/user"
PathSep == "/"

\* datetime.now().strftime('%d/%m/%Y %H:%M:%S')
fdate == "02/11/2026 23:47:00"

\* Values of -e/--environment that are given on the command line.
EnvironmentArgs == {"", "1"}

\* Environment ids a caller of the class passes.
EnvironmentIds == {"1", "2"}

\* arguments.environment: absent (None) or the string given.
ArgNone == [given |-> FALSE, value |-> ""]
ArgStr(s) == [given |-> TRUE, value |-> s]

\* Python's str() on arguments.environment.
str(a) == IF a.given THEN a.value ELSE "None"

\* Host records of the hosts endpoint. A record is the function of the keys
\* it has: a record that lacks a key has no such element in its DOMAIN.
HostGroups == {"web", "db"}
HostNames == {"h1", "h2", "h3"}
HostRecords ==
    [hostgroup_title : HostGroups, name : HostNames]
        \cup {[name |-> "h1"], [hostgroup_title |-> "web"]}

\* Environment records of the listing endpoint.
EnvNames == {"prod", "dev"}
EnvIdNumbers == {1, 2}
EnvRecords ==
    [name : EnvNames, id : EnvIdNumbers]
        \cup {[id |-> 1], [name |-> "prod"]}

SeqsUpTo(S, n) == UNION {[1..k -> S] : k \in 0..n}

\* Bodies a server sends: text that is no JSON, a JSON object without the
\* key `results`, or a JSON object whose `results` is an array of records.
Bodies(Records) ==
    {[kind |-> "notjson", results |-> <<>>],
     [kind |-> "noresults", results |-> <<>>]}
        \cup {[kind |-> "json", results |-> rs] : rs \in SeqsUpTo(Records, MaxRecords)}

\* HTTP status codes of a response, and the bodies that come with an error
\* status: an error page, an error object, an empty listing.
OkCodes == {200}
ErrorCodes == {404, 500}
ErrorBodies ==
    {[kind |-> "notjson", results |-> <<>>],
     [kind |-> "noresults", results |-> <<>>],
     [kind |-> "json", results |-> <<>>]}

(* ------------------------ exception classes ---------------------------- *)

\* The classes an exception of class c is an instance of (its MRO).
\* requests.exceptions: RequestException(IOError); HTTPError, ConnectionError,
\* Timeout and TooManyRedirects derive from RequestException;
\* ConnectTimeout(ConnectionError, Timeout); ReadTimeout(Timeout).
\* json.JSONDecodeError(ValueError); KeyError(LookupError);
\* PermissionError and FileNotFoundError derive from OSError, which IOError names.
Bases(c) ==
    CASE c = "HTTPError" -> {"HTTPError", "RequestException", "IOError"}
      [] c = "ConnectionError" -> {"ConnectionError", "RequestException", "IOError"}
      [] c = "ConnectTimeout" ->
            {"ConnectTimeout", "ConnectionError", "Timeout", "RequestException", "IOError"}
      [] c = "ReadTimeout" -> {"ReadTimeout", "Timeout", "RequestException", "IOError"}
      [] c = "TooManyRedirects" -> {"TooManyRedirects", "RequestException", "IOError"}
      [] c = "JSONDecodeError" -> {"JSONDecodeError", "ValueError"}
      [] c = "KeyError" -> {"KeyError", "LookupError"}
      [] c = "PermissionError" -> {"PermissionError", "IOError"}
      [] c = "FileNotFoundError" -> {"FileNotFoundError", "IOError"}
      [] OTHER -> {c}

\* What requests.get(..., timeout=5) raises when no response arrives.
TransportErrors == {"ConnectionError", "ConnectTimeout", "ReadTimeout", "TooManyRedirects"}

\* What open(self.hfile, 'w') raises when it fails.
OpenErrors == {"PermissionError", "FileNotFoundError"}

\* What write() and the close of the with block raise when they fail
\* (OSError, which IOError names).
WriteErrors == {"IOError"}

\* raise_for_status left out: no status raises.
raise_for_status_never(status) == FALSE

\* Response.raise_for_status(): raises HTTPError for 4xx and 5xx.
raise_for_status(status) == status >= 400 /\ status < 600

(* ------------------------------ grouping ------------------------------- *)

\* results_dict[key].append(value) on a defaultdict(list): the dict is the
\* sequence of its items in insertion order; a new key is added at the end,
\* a key already present keeps its place and gets the value appended.
\* results_dict[key] = [value]: a key already present loses its earlier values.
defaultdict_overwrite(d, key, value) ==
    IF \E i \in 1..Len(d) : d[i].key = key
    THEN [i \in 1..Len(d) |->
            IF d[i].key = key THEN [key |-> key, vals |-> <<value>>] ELSE d[i]]
    ELSE Append(d, [key |-> key, vals |-> <<value>>])

defaultdict_append(d, key, value) ==
    IF \E i \in 1..Len(d) : d[i].key = key
    THEN [i \in 1..Len(d) |->
            IF d[i].key = key
            THEN [key |-> key, vals |-> Append(d[i].vals, value)]
            ELSE d[i]]
    ELSE Append(d, [key |-> key, vals |-> <<value>>])

\* for group, host in zip(parsed_groups, parsed_hosts): results_dict[group].append(host)
RECURSIVE zip_group(_, _, _)
zip_group(parsed_keys, parsed_vals, d) ==
    IF parsed_keys = <<>> \/ parsed_vals = <<>>
    THEN d
    ELSE zip_group(Tail(parsed_keys), Tail(parsed_vals),
                   defaultdict_append(d, Head(parsed_keys), Head(parsed_vals)))

\* The first loop of the try body: data[kf] and data[vf] of every record, in
\* order. A record without one of the two keys raises KeyError.
lacks_key(results, kf, vf) ==
    \E i \in 1..Len(results) : ~({kf, vf} \subseteq DOMAIN results[i])

column(results, f) == [i \in 1..Len(results) |-> results[i][f]]

\* The try body from json.loads to the filled results_dict:
\* the exception it raises ("none" when it raises none) and the dict.
loads_and_group(body, kf, vf) ==
    IF body.kind = "notjson"
    THEN [exc |-> "JSONDecodeError", results_dict |-> <<>>]
    ELSE IF body.kind = "noresults"
    THEN [exc |-> "KeyError", results_dict |-> <<>>]
    ELSE IF lacks_key(body.results, kf, vf)
    THEN [exc |-> "KeyError", results_dict |-> <<>>]
    ELSE [exc |-> "none",
          results_dict |-> zip_group(column(body.results, kf),
                                     column(body.results, vf), <<>>)]

(* ------------------------- exception handlers -------------------------- *)

\* except clauses of parse_envs, in the order they are written.
parse_envs_handlers ==
    <<[class |-> "HTTPError", msg |-> "HTTP error"],
      [class |-> "ConnectionError", msg |-> "Connection error"],
      [class |-> "Timeout", msg |-> "Timeout error"],
      [class |-> "RequestException", msg |-> "General error"]>>

\* The outer try of parse_hosts without its last clause (no catch-all).
parse_hosts_handlers_no_catch_all ==
    <<[class |-> "HTTPError", msg |-> "HTTP error"],
      [class |-> "ConnectionError", msg |-> "Connection error"],
      [class |-> "Timeout", msg |-> "Timeout error"]>>

\* except clauses of the outer try of parse_hosts, in the order they are written.
parse_hosts_handlers ==
    <<[class |-> "HTTPError", msg |-> "HTTP error"],
      [class |-> "ConnectionError", msg |-> "Connection error"],
      [class |-> "Timeout", msg |-> "Timeout error"],
      [class |-> "RequestException", msg |-> "General error"]>>

\* The inner try catching a missing file only.
hfile_handlers_not_found_only ==
    <<[class |-> "FileNotFoundError", msg |-> "Error opening the target file"]>>

\* except clause of the inner try of parse_hosts (around the file).
hfile_handlers ==
    <<[class |-> "IOError", msg |-> "Error opening the target file"]>>

\* Python's choice of the except clause: the first one, in order, whose class
\* the exception is an instance of; 0 when none matches.
except_clause(handlers, c) ==
    IF \E i \in 1..Len(handlers) : handlers[i].class \in Bases(c)
    THEN CHOOSE i \in 1..Len(handlers) :
            /\ handlers[i].class \in Bases(c)
            /\ \A j \in 1..(i - 1) : handlers[j].class \notin Bases(c)
    ELSE 0

(* ------------------------------- files --------------------------------- *)

\* AnsibleInventory.__init__: self.hfile
hfile_path(hostfile, envid) == PathHome \o PathSep \o hostfile \o envid

\* url of parse_hosts
hosts_url(base_url, environment_id) == base_url \o environment_id \o "/hosts?per_page=100000"

\* Lines the three hosts.write calls add; every write ends with "\n", so the
\* file is a sequence of whole lines.
header_lines(environment_id) ==
    <<"# Ansible hosts file for Foreman inventory id " \o environment_id
        \o " generated on " \o fdate>>
\* hosts.write(f'[{key}]\n'): the blank line before the group left out.
group_lines_no_blank(key) == <<"[" \o key \o "]">>

group_lines(key) == <<"", "[" \o key \o "]">>
host_lines(val) == <<val>>

NoFile == [exists |-> FALSE, lines |-> <<>>]
OldFile == [exists |-> TRUE, lines |-> <<"# an older inventory", "", "[old]", "h0">>]

\* Every path a run can name.
Paths ==
    {hfile_path(settings.hfile, e) : e \in EnvironmentArgs \cup EnvironmentIds \cup {"None"}}

\* The inventory files earlier runs left.
OldPaths == {hfile_path(settings.hfile, "1")}

InitialFs == [p \in Paths |-> IF p \in OldPaths THEN OldFile ELSE NoFile]

(* ------------------------------- state --------------------------------- *)

VARIABLES
    script,          \* what runs: "main.py", "inventory_generator.py", or "import"
    arguments,       \* parse_args(): [action, environment]
    hosts,           \* the AnsibleInventory instance: [made, envid, hfile]
    pc,              \* where the run is
    environment_id,  \* parameter of parse_hosts
    http_log,        \* urls of the requests.get calls made
    fetch,           \* how the request ended: [outcome, status, body]
    raised,          \* classes of the exceptions raised, in order
    results_dict,    \* the defaultdict of the try body
    fs,              \* the file system: path -> [exists, lines]
    opens,           \* paths of the open(..., 'w') calls made
    fh,              \* the file object of the with block: [open, path]
    pos,             \* the two write loops: [k, v]
    stdout,          \* what print wrote, in order: [msg, arg]
    stderr,          \* what exit(<text>) or a traceback wrote
    exit_code        \* <<>> while running, <<code>> once the process ended

vars ==
    <<script, arguments, hosts, pc, environment_id, http_log, fetch, raised,
      results_dict, fs, opens, fh, pos, stdout, stderr, exit_code>>

Scripts == {"main.py", "inventory_generator.py"}

NoFetch == [outcome |-> "none", status |-> 0, body |-> [kind |-> "none", results |-> <<>>]]

print(msg, arg) == [msg |-> msg, arg |-> arg]

\* Before the first statement: the command line is given (parse_args: the
\* action is one of the two choices and defaults to listenvs, -e is optional),
\* the inventory files of earlier runs are there or not.
Init ==
    /\ script \in Scripts \cup {"import"}
    /\ arguments \in
         [action : {"listenvs", "parseenv"},
          environment : {ArgNone} \cup {ArgStr(e) : e \in EnvironmentArgs}]
    /\ (script = "import" =>
            arguments = [action |-> "listenvs", environment |-> ArgNone])
    /\ hosts = [made |-> FALSE, envid |-> "", hfile |-> ""]
    /\ pc = "start"
    /\ environment_id = ""
    /\ http_log = <<>>
    /\ fetch = NoFetch
    /\ raised = <<>>
    /\ results_dict = <<>>
    /\ fs = InitialFs
    /\ opens = <<>>
    /\ fh = [open |-> FALSE, path |-> ""]
    /\ pos = [k |-> 0, v |-> 0]
    /\ stdout = <<>>
    /\ stderr = <<>>
    /\ exit_code = <<>>

\* AnsibleInventory(envid, base_url, username, password, hostfile)
AnsibleInventory(envid, hostfile) ==
    [made |-> TRUE, envid |-> envid, hfile |-> hfile_path(hostfile, envid)]

(* ------------------------------ the scripts ---------------------------- *)

\* The test of the environment left out.
environment_unchecked(a) == TRUE

\* `arguments.environment is not None`
environment_is_not_None(a) == a.given

\* What generate_ansible_hosts does after it made the instance: "parse_envs",
\* "parse_hosts", "exit" (exit with the usage text), or "return" (no branch taken).
dispatch(args) ==
    IF args.action = "listenvs" THEN "parse_envs"
    ELSE IF args.action = "parseenv"
         THEN IF environment_is_not_None(args.environment) THEN "parse_hosts" ELSE "exit"
         ELSE "return"

\* platform.system().lower() of the machine the script runs on
os_family == "linux"

\* fc.print_os_warning(): what it prints
print_os_warning ==
    IF os_family \notin {"linux", "darwin"}
    THEN <<print("Running an OS without Ansible, transfer the inventory file", os_family)>>
    ELSE <<>>

\* fc.read_settings(): what it prints before it reads the ini file
read_settings_prints ==
    <<print("Reading Foreman configuration from", "config/foreman.ini")>>

\* The text of exit(...) in each script (its first sentence).
UsageText(name) ==
    IF name = "main.py"
    THEN "Error: Please provide a valid Foreman environment ID."
    ELSE "Please provide (correct) Foreman environment ID."

generate(name) ==
    /\ script = name
    /\ pc = "start"
    /\ LET env_id == str(arguments.environment)
           to == dispatch(arguments)
       IN /\ hosts' = AnsibleInventory(env_id, settings.hfile)
          /\ environment_id' = IF to = "parse_hosts" THEN env_id ELSE environment_id
          /\ pc' = CASE to = "exit" -> "exited"
                     [] to = "return" -> "returned"
                     [] OTHER -> to
          /\ stderr' = IF to = "exit" THEN Append(stderr, UsageText(name)) ELSE stderr
          /\ exit_code' = IF to = "exit" THEN <<1>> ELSE exit_code
          /\ stdout' = stdout \o read_settings_prints
                \o (IF to = "parse_hosts" THEN print_os_warning ELSE <<>>)
    /\ UNCHANGED <<script, arguments, http_log, fetch, raised, results_dict,
                   fs, opens, fh, pos>>

\* main.py: generate_ansible_hosts (if / elif)
main_generate_ansible_hosts == generate("main.py")

\* inventory_generator.py: generate_ansible_hosts (two ifs; the actions exclude each other)
inventory_generator_generate_ansible_hosts == generate("inventory_generator.py")

\* generate_ansible_hosts and main return: the interpreter ends with status 0.
script_end ==
    /\ script \in Scripts
    /\ pc = "returned"
    /\ pc' = "exited"
    /\ exit_code' = <<0>>
    /\ UNCHANGED <<script, arguments, hosts, environment_id, http_log, fetch, raised,
                   results_dict, fs, opens, fh, pos, stdout, stderr>>

(* ------------------- a caller that imports the class ------------------- *)

\* fe.AnsibleInventory(envid, ...) made by an importing caller.
import_AnsibleInventory ==
    /\ script = "import"
    /\ pc = "start"
    /\ \E envid \in EnvironmentIds : hosts' = AnsibleInventory(envid, settings.hfile)
    /\ pc' = "made"
    /\ UNCHANGED <<script, arguments, environment_id, http_log, fetch, raised,
                   results_dict, fs, opens, fh, pos, stdout, stderr, exit_code>>

\* hosts.parse_hosts(environment_id) called by an importing caller.
import_parse_hosts ==
    /\ script = "import"
    /\ pc = "made"
    /\ \E e \in EnvironmentIds : environment_id' = e
    /\ pc' = "parse_hosts"
    /\ UNCHANGED <<script, arguments, hosts, http_log, fetch, raised,
                   results_dict, fs, opens, fh, pos, stdout, stderr, exit_code>>

\* hosts.parse_envs() called by an importing caller.
import_parse_envs ==
    /\ script = "import"
    /\ pc = "made"
    /\ pc' = "parse_envs"
    /\ UNCHANGED <<script, arguments, hosts, environment_id, http_log, fetch, raised,
                   results_dict, fs, opens, fh, pos, stdout, stderr, exit_code>>

(* ------------------------ what the network answers --------------------- *)

\* How requests.get ends: no response (a transport error is raised), or a
\* response with a status code and a body.
Fetches(Records) ==
    {[outcome |-> e, status |-> 0, body |-> NoFetch.body] : e \in TransportErrors}
        \cup [outcome : {"response"}, status : OkCodes, body : Bodies(Records)]
        \cup [outcome : {"response"}, status : ErrorCodes, body : ErrorBodies]

\* The try body from requests.get to the filled results_dict: the exception
\* it raises ("none" when none), whether the status line was printed, the dict.
request_and_group(f, kf, vf) ==
    IF f.outcome # "response"
    THEN [exc |-> f.outcome, status_printed |-> FALSE, results_dict |-> <<>>]
    ELSE IF raise_for_status(f.status)
    THEN [exc |-> "HTTPError", status_printed |-> FALSE, results_dict |-> <<>>]
    ELSE LET g == loads_and_group(f.body, kf, vf)
         IN [exc |-> g.exc, status_printed |-> TRUE, results_dict |-> g.results_dict]

status_line(t, f) ==
    IF t.status_printed THEN <<print("API request status code", f.status)>> ELSE <<>>

last_raised == raised[Len(raised)]

(* ------------------------------ parse_envs ----------------------------- *)

\* [print(f'{n:<15} {i}') for n, i in results_dict.items()]
table_rows(d) == [i \in 1..Len(d) |-> print("row", d[i])]

\* The try body of parse_envs.
parse_envs_try ==
    /\ pc = "parse_envs"
    /\ http_log' = Append(http_log, settings.base_url)
    /\ \E f \in Fetches(EnvRecords) :
         LET t == request_and_group(f, "name", "id")
         IN /\ fetch' = f
            /\ IF t.exc # "none"
               THEN /\ raised' = Append(raised, t.exc)
                    /\ stdout' = stdout \o status_line(t, f)
                    /\ pc' = "envs_except"
                    /\ UNCHANGED results_dict
               ELSE /\ results_dict' = t.results_dict
                    /\ stdout' = stdout \o status_line(t, f)
                          \o <<print("-All Foreman environments and their respective IDs-", "")>>
                          \o table_rows(t.results_dict)
                    /\ pc' = "returned"
                    /\ UNCHANGED raised
    /\ UNCHANGED <<script, arguments, hosts, environment_id, fs, opens, fh, pos,
                   stderr, exit_code>>

\* An exception no except clause takes leaves the method: the interpreter
\* prints the traceback and ends with status 1.
uncaught(c) ==
    /\ stderr' = Append(stderr, "Traceback: " \o c)
    /\ pc' = "exited"
    /\ exit_code' = <<1>>
    /\ UNCHANGED stdout

\* The except clauses of parse_envs.
parse_envs_except ==
    /\ pc = "envs_except"
    /\ LET i == except_clause(parse_envs_handlers, last_raised)
       IN IF i # 0
          THEN /\ stdout' = Append(stdout, print(parse_envs_handlers[i].msg, last_raised))
               /\ pc' = "returned"
               /\ UNCHANGED <<stderr, exit_code>>
          ELSE uncaught(last_raised)
    /\ UNCHANGED <<script, arguments, hosts, environment_id, http_log, fetch, raised,
                   results_dict, fs, opens, fh, pos>>

(* ------------------------------ parse_hosts ---------------------------- *)

\* parse_hosts up to the filled results_dict.
parse_hosts_try ==
    /\ pc = "parse_hosts"
    /\ http_log' = Append(http_log, hosts_url(settings.base_url, environment_id))
    /\ \E f \in Fetches(HostRecords) :
         LET t == request_and_group(f, "hostgroup_title", "name")
             started == <<print("Starting hosts file generation, please wait...", ""),
                          print("Parsing Foreman environment with id", environment_id)>>
         IN /\ fetch' = f
            /\ stdout' = stdout \o started \o status_line(t, f)
            /\ IF t.exc # "none"
               THEN /\ raised' = Append(raised, t.exc)
                    /\ pc' = "hosts_except"
                    /\ UNCHANGED results_dict
               ELSE /\ results_dict' = t.results_dict
                    /\ pc' = "open"
                    /\ UNCHANGED raised
    /\ UNCHANGED <<script, arguments, hosts, environment_id, fs, opens, fh, pos,
                   stderr, exit_code>>

\* open(self.hfile, 'w'): the file is created or truncated, or open raises.
open_hfile ==
    /\ pc = "open"
    /\ opens' = Append(opens, hosts.hfile)
    /\ \/ /\ fs' = [fs EXCEPT ![hosts.hfile] = [exists |-> TRUE, lines |-> <<>>]]
          /\ fh' = [open |-> TRUE, path |-> hosts.hfile]
          /\ pc' = "write_header"
          /\ UNCHANGED raised
       \/ /\ \E e \in OpenErrors : raised' = Append(raised, e)
          /\ pc' = "file_except"
          /\ UNCHANGED <<fs, fh>>
    /\ UNCHANGED <<script, arguments, hosts, environment_id, http_log, fetch,
                   results_dict, pos, stdout, stderr, exit_code>>

\* hosts.write(text): the lines are added to the file, and `then` follows; or
\* write raises, the with block closes the file and the exception goes on.
write(lines, then, next_pos) ==
    /\ fh.open
    /\ \/ /\ fs' = [fs EXCEPT ![fh.path].lines = @ \o lines]
          /\ pc' = then
          /\ pos' = next_pos
          /\ UNCHANGED <<raised, fh>>
       \/ /\ \E e \in WriteErrors : raised' = Append(raised, e)
          /\ fh' = [fh EXCEPT !.open = FALSE]
          /\ pc' = "file_except"
          /\ UNCHANGED <<fs, pos>>
    /\ UNCHANGED <<script, arguments, hosts, environment_id, http_log, fetch,
                   results_dict, opens, stdout, stderr, exit_code>>

\* hosts.write(f'# Ansible hosts file ... id {environment_id} generated on {fdate}\n')
write_header ==
    /\ pc = "write_header"
    /\ write(header_lines(environment_id), "write_groups", [k |-> 1, v |-> 0])

\* for key in results_dict: hosts.write(f'\n[{key}]\n')
write_group ==
    /\ pc = "write_groups"
    /\ pos.k <= Len(results_dict)
    /\ pos.v = 0
    /\ write(group_lines(results_dict[pos.k].key), "write_groups", [pos EXCEPT !.v = 1])

\* for val in results_dict[key]: hosts.write(f'{val}\n')
write_host ==
    /\ pc = "write_groups"
    /\ pos.k <= Len(results_dict)
    /\ pos.v >= 1
    /\ write(host_lines(results_dict[pos.k].vals[pos.v]), "write_groups",
             IF pos.v = Len(results_dict[pos.k].vals)
             THEN [k |-> pos.k + 1, v |-> 0]
             ELSE [pos EXCEPT !.v = @ + 1])

\* The with block ends: the file is closed (the close may raise), then the
\* path of the file is reported.
close_hfile ==
    /\ pc = "write_groups"
    /\ pos.k > Len(results_dict)
    /\ fh.open
    /\ fh' = [fh EXCEPT !.open = FALSE]
    /\ \/ /\ stdout' = Append(stdout,
                print("The following inventory file has been generated locally", hosts.hfile))
          /\ pc' = "returned"
          /\ UNCHANGED raised
       \/ /\ \E e \in WriteErrors : raised' = Append(raised, e)
          /\ pc' = "file_except"
          /\ UNCHANGED stdout
    /\ UNCHANGED <<script, arguments, hosts, environment_id, http_log, fetch,
                   results_dict, fs, opens, pos, stderr, exit_code>>

\* except IOError of the inner try; an exception it does not take goes on to
\* the except clauses of the outer try.
hfile_except ==
    /\ pc = "file_except"
    /\ LET i == except_clause(hfile_handlers, last_raised)
       IN IF i # 0
          THEN /\ stdout' = Append(stdout, print(hfile_handlers[i].msg, hosts.hfile))
               /\ pc' = "returned"
          ELSE /\ pc' = "hosts_except"
               /\ UNCHANGED stdout
    /\ UNCHANGED <<script, arguments, hosts, environment_id, http_log, fetch, raised,
                   results_dict, fs, opens, fh, pos, stderr, exit_code>>

\* The except clauses of the outer try of parse_hosts.
parse_hosts_except ==
    /\ pc = "hosts_except"
    /\ LET i == except_clause(parse_hosts_handlers, last_raised)
       IN IF i # 0
          THEN /\ stdout' = Append(stdout, print(parse_hosts_handlers[i].msg, last_raised))
               /\ pc' = "returned"
               /\ UNCHANGED <<stderr, exit_code>>
          ELSE uncaught(last_raised)
    /\ UNCHANGED <<script, arguments, hosts, environment_id, http_log, fetch, raised,
                   results_dict, fs, opens, fh, pos>>

(* --------------------------- the specification ------------------------- *)

Next ==
    \/ main_generate_ansible_hosts
    \/ inventory_generator_generate_ansible_hosts
    \/ script_end
    \/ import_AnsibleInventory
    \/ import_parse_hosts
    \/ import_parse_envs
    \/ parse_envs_try
    \/ parse_envs_except
    \/ parse_hosts_try
    \/ open_hfile
    \/ write_header
    \/ write_group
    \/ write_host
    \/ close_hfile
    \/ hfile_except
    \/ parse_hosts_except

Spec == Init /\ [][Next]_vars

(* ------------------------------ properties ----------------------------- *)

\* Which method made the request.
method ==
    IF http_log = <<>> THEN "none"
    ELSE IF http_log[1] = settings.base_url THEN "parse_envs" ELSE "parse_hosts"

key_field == IF method = "parse_envs" THEN "name" ELSE "hostgroup_title"
value_field == IF method = "parse_envs" THEN "id" ELSE "name"

HasMsg(m) == \E i \in 1..Len(stdout) : stdout[i].msg = m

SuccessMsg == "The following inventory file has been generated locally"
ClassifiedMsgs == {"HTTP error", "Connection error", "Timeout error", "General error"}

Is2xx(status) == status >= 200 /\ status <= 299

\* The request failed: no response, or a response whose status is not 2xx.
FetchFailed ==
    \/ fetch.outcome \in TransportErrors
    \/ fetch.outcome = "response" /\ ~Is2xx(fetch.status)

\* The request succeeded and the body has the shape the endpoint documents.
WellFormed ==
    /\ fetch.outcome = "response"
    /\ Is2xx(fetch.status)
    /\ fetch.body.kind = "json"
    /\ \A i \in 1..Len(fetch.body.results) :
          {key_field, value_field} \subseteq DOMAIN fetch.body.results[i]

\* The request succeeded and the body is not what the endpoint documents.
Malformed ==
    /\ fetch.outcome = "response"
    /\ Is2xx(fetch.status)
    /\ ~WellFormed

\* Place of the first record of rs that carries key k.
FirstIndex(rs, k) ==
    CHOOSE n \in 1..Len(rs) :
        /\ rs[n][key_field] = k
        /\ \A m \in 1..(n - 1) : rs[m][key_field] # k

\* The values of the records of rs that carry key k, in the order of rs.
ValuesOf(rs, k) ==
    LET sel == SelectSeq(rs, LAMBDA r : r[key_field] = k)
    IN [n \in 1..Len(sel) |-> sel[n][value_field]]

RECURSIVE TotalValues(_)
TotalValues(d) == IF d = <<>> THEN 0 ELSE Len(Head(d).vals) + TotalValues(Tail(d))

\* d is the grouping of rs: one item per key, in the order of first
\* occurrence, each with the values of that key in the order of rs.
IsGroupingOf(d, rs) ==
    /\ {d[i].key : i \in 1..Len(d)} = {rs[n][key_field] : n \in 1..Len(rs)}
    /\ \A i, j \in 1..Len(d) :
          i < j => FirstIndex(rs, d[i].key) < FirstIndex(rs, d[j].key)
    /\ \A i \in 1..Len(d) : d[i].vals = ValuesOf(rs, d[i].key)
    /\ TotalValues(d) = Len(rs)

\* C1: once parse_envs or parse_hosts has grouped a well-formed response, the
\* keys of results_dict are in the order of their first occurrence in
\* `results`, each key holds exactly the values of its records in the
\* original order, and the values add up to the number of records.
C1_GroupingOrderAndCompleteness ==
    WellFormed => IsGroupingOf(results_dict, fetch.body.results)

\* C1 witness: web, db, web is grouped into web: h1 h3, then db: h2.
C1_Witness ==
    /\ method = "parse_hosts"
    /\ WellFormed
    /\ fetch.body.results =
         <<[hostgroup_title |-> "web", name |-> "h1"],
           [hostgroup_title |-> "db", name |-> "h2"],
           [hostgroup_title |-> "web", name |-> "h3"]>>
    /\ results_dict =
         <<[key |-> "web", vals |-> <<"h1", "h3">>], [key |-> "db", vals |-> <<"h2">>]>>

HeaderLine(id) ==
    "# Ansible hosts file for Foreman inventory id " \o id \o " generated on " \o fdate

\* The group sections of the inventory file for the dict d.
RECURSIVE Sections(_)
Sections(d) ==
    IF d = <<>> THEN <<>>
    ELSE <<"", "[" \o Head(d).key \o "]">> \o Head(d).vals \o Sections(Tail(d))

\* parse_hosts ended and nothing was raised.
HostsSucceeded ==
    /\ method = "parse_hosts"
    /\ pc \in {"returned", "exited"}
    /\ raised = <<>>

\* C2: after a successful parse_hosts the file holds the header line and then,
\* for each group in first-seen order, a blank line, the line [key] and the
\* hosts of the group in first-seen order, and nothing else; an empty
\* `results` gives the header line alone.
C2_FileFormat ==
    HostsSucceeded =>
        /\ fs[hosts.hfile].exists
        /\ IsGroupingOf(results_dict, fetch.body.results)
        /\ fs[hosts.hfile].lines = <<HeaderLine(environment_id)>> \o Sections(results_dict)
        /\ (fetch.body.results = <<>> =>
                fs[hosts.hfile].lines = <<HeaderLine(environment_id)>>)

\* C2 witness: the file written for web h1, db h2, web h3.
C2_Witness ==
    /\ HostsSucceeded
    /\ fetch.body.results =
         <<[hostgroup_title |-> "web", name |-> "h1"],
           [hostgroup_title |-> "db", name |-> "h2"],
           [hostgroup_title |-> "web", name |-> "h3"]>>
    /\ fs[hosts.hfile].lines =
         <<HeaderLine(environment_id), "", "[web]", "h1", "h3", "", "[db]", "h2">>

LastMsg == IF stdout = <<>> THEN "" ELSE stdout[Len(stdout)].msg

\* The class a failed request is to be reported under.
FailureClass ==
    CASE fetch.outcome = "response" -> "HTTP error"
      [] fetch.outcome = "ConnectionError" -> "Connection error"
      [] fetch.outcome \in {"ConnectTimeout", "ReadTimeout"} -> "Timeout error"
      [] OTHER -> "General error"

\* C4: a failed request is reported under its own class: a timeout (while
\* connecting or while reading) as a timeout error, a refused connection as a
\* connection error, a 4xx/5xx status as an HTTP error, anything else as a
\* general error.
C4_EachFailureUnderItsClass ==
    (FetchFailed /\ pc \in {"returned", "exited"}) => LastMsg = FailureClass

\* The script ran generate_ansible_hosts with action parseenv and no -e.
MissingEnvironment ==
    /\ script \in Scripts
    /\ arguments.action = "parseenv"
    /\ ~arguments.environment.given

\* C5: with action parseenv and no environment on the command line,
\* parse_hosts is never called (no request, no file) and the process ends
\* with a non-zero status and the usage text.
C5_MissingEnvironmentExits ==
    MissingEnvironment =>
        /\ pc \in {"start", "exited"}
        /\ http_log = <<>>
        /\ opens = <<>>
        /\ fs = InitialFs
        /\ \A i \in 1..Len(stdout) : stdout[i].msg = "Reading Foreman configuration from"
        /\ (pc = "exited" =>
                /\ exit_code # <<>>
                /\ exit_code[1] # 0
                /\ stderr = <<UsageText(script)>>)

\* C5 witness: the process has ended for a missing environment.
C5_Witness == MissingEnvironment /\ pc = "exited" /\ exit_code = <<1>>

\* C6: the scripts call parse_hosts with a non-empty environment id only, and
\* no request is made for an empty one.
C6_NoEmptyEnvironment ==
    script \in Scripts =>
        /\ (pc = "parse_hosts" => environment_id # "")
        /\ \A i \in 1..Len(http_log) : http_log[i] # hosts_url(settings.base_url, "")

\* What a run prints after the request went well.
ProgressMsgs ==
    {"API request status code", "-All Foreman environments and their respective IDs-",
     "row", SuccessMsg, "Error opening the target file"}

\* C7: on a failed request parse_envs and parse_hosts print one classified
\* message and return: nothing is grouped, no table, no file, no success
\* message, no exception leaves, and the script ends with status 0.
C7_FetchFailureReportedAndSwallowed ==
    FetchFailed =>
        /\ pc \in {"envs_except", "hosts_except", "returned", "exited"}
        /\ results_dict = <<>>
        /\ opens = <<>>
        /\ fs = InitialFs
        /\ \A i \in 1..Len(stdout) : stdout[i].msg \notin ProgressMsgs
        /\ stderr = <<>>
        /\ (pc \in {"returned", "exited"} =>
                /\ LastMsg \in ClassifiedMsgs
                /\ Cardinality({i \in 1..Len(stdout) : stdout[i].msg \in ClassifiedMsgs}) = 1)
        /\ (pc = "exited" => exit_code = <<0>>)

\* C7 witness: a script ended with status 0 after a request of parse_hosts
\* that no specific clause takes.
C7_Witness ==
    /\ method = "parse_hosts"
    /\ fetch.outcome = "TooManyRedirects"
    /\ pc = "exited"
    /\ exit_code = <<0>>
    /\ LastMsg = "General error"

\* C8: the file opened by parse_hosts(environment_id) is home + separator +
\* prefix + environment_id, the identifier of the url and of the header; and
\* after a successful run the file holds what this run wrote, whatever it
\* held before.
C8_PathOfEnvironmentId ==
    /\ \A i \in 1..Len(opens) :
          opens[i] = PathHome \o PathSep \o settings.hfile \o environment_id
    /\ (HostsSucceeded =>
          fs[PathHome \o PathSep \o settings.hfile \o environment_id].lines =
              <<HeaderLine(environment_id)>> \o Sections(results_dict))

\* An operation on the inventory file failed.
FileFailed ==
    \E i \in 1..Len(raised) : raised[i] \in OpenErrors \cup WriteErrors

\* Lines of a completely written inventory file.
FullLength == 1 + 2 * Len(results_dict) + Len(fetch.body.results)

C10_MalformedResponseCaught ==
    Malformed =>
        /\ stderr = <<>>
        /\ (pc = "exited" => exit_code = <<0>>)

====
